---- MODULE Spec2Model ----
(***************************************************************************)
(* State-machine model of setup.py of kytos: the setuptools commands       *)
(* (ci, egg_info, build_sass, install, develop), the shared helpers of     *)
(* CommonInstall, and the parts of the file system and of the Python       *)
(* environment they read and write.                                        *)
(*                                                                         *)
(* One command runs at a time (setup.py is single-threaded); a command is  *)
(* a sequence of steps, pc names the step about to run.  A step that       *)
(* raises sets pc to "raised" and exc to the exception; nothing in         *)
(* setup.py catches an exception except Linter.run, so "raised" is final   *)
(* for the command.                                                        *)
(***************************************************************************)
EXTENDS Integers, Sequences, FiniteSets

\* ------------------------------------------------------------------ bounds
\* Commands dispatched in one behaviour.
MaxRuns == 3
\* Length of the prefixes a direct render is called with.
MaxPrefixLen == 2

\* ------------------------------------------------------------------ state
VARIABLES
  cmd,            \* the command being run: a key of cmdclass, or "none"
  pc,             \* the step about to run: "idle", a step name, "done", "raised"
  exc,            \* the exception that ended the command, "none" otherwise
  ran,            \* the steps performed so far by the running command, in order
  runs,           \* commands dispatched so far
  tool_failed,    \* the steps of this command whose subprocess / library call failed
  sass_importable,\* "import sass" succeeds
  style_css,      \* SASSBuild.style_css: "absent", "prebuilt" or "compiled"
  style_map,      \* style.css.map, same values
  pip_calls,      \* pip install -r requirements/build.in run by this command
  import_tries,   \* "import sass" statements executed by this command
  compile_calls,  \* sass.compile calls made by this command
  egg_compiles,   \* sass.compile calls made by all egg_info commands so far
  egg_compiled_ok,\* those of them that returned the compiled CSS
  css_at_start,   \* style_css when the running command was dispatched
  BASE_ENV,       \* os.environ.get('VIRTUAL_ENV', None) or '/', a string of characters
  SYSLOG_ARGS,    \* ['/dev/log'] if that socket exists, else []
  templates,      \* the text of each file of TEMPLATE_FILES, a sequence of tokens
  tree,           \* the config files under <destination>/etc/kytos, per destination
  dst,            \* the entries under BASE_ENV/etc/kytos: absent, a file or a link
  etc_dirs,       \* the roots whose etc/kytos directory exists
  pid_folder,     \* BASE_ENV/var/run/kytos: whether it exists, and its mode
  argv_bdist,     \* 'bdist_wheel' in sys.argv
  destination,    \* generate_file_from_template's destination argument
  prefix_given,   \* its prefix keyword as passed
  kwargs_prefix,  \* kwargs['prefix'], which the function rewrites
  idx,            \* position of the running for loop in its list
  ensured,        \* the roots whose etc/kytos create_paths has ensured in this command
  src_at_start,   \* tree["src"] when the running command was dispatched
  dst_at_start,   \* dst when the running command was dispatched
  pid_at_start,   \* pid_folder when the running command was dispatched
  links_made,     \* per config file, the os.symlink calls that created a link
  prev,           \* the previous command and how it ended
  prev_render     \* the previous command's render, when it was a completed render

procVars  == <<cmd, pc, exc, ran, runs, tool_failed>>
envVars   == <<BASE_ENV, SYSLOG_ARGS, templates>>
fsVars    == <<tree, dst, etc_dirs, pid_folder>>
callVars  == <<argv_bdist, destination, prefix_given, kwargs_prefix, idx, ensured>>
histVars  == <<src_at_start, dst_at_start, pid_at_start, links_made, prev, prev_render>>
instVars  == <<envVars, fsVars, callVars, histVars>>
assetVars == <<sass_importable, style_css, style_map, pip_calls, import_tries,
               compile_calls, egg_compiles, egg_compiled_ok, css_at_start>>
vars == <<procVars, assetVars, instVars>>

\* ------------------------------------------------------- files and templates
\* A path is its directory, its file name and, for a template, the suffix.
ETC_FILES == << <<"etc/kytos/", "logging.ini">> >>

TEMPLATE_FILES == << <<"etc/kytos/", "kytos.conf", ".template">>,
                     <<"etc/kytos/", "logging.ini", ".template">> >>

\* path.replace('.template', '')
StripTemplate(path) == SelectSeq(path, LAMBDA part : part # ".template")

Range(seq) == {seq[i] : i \in 1..Len(seq)}

\* Every config file setup.py writes, copies or links.
ConfigFiles == Range(ETC_FILES) \cup {StripTemplate(t) : t \in Range(TEMPLATE_FILES)}

NoFile == [exists |-> FALSE, data |-> <<>>]
File(data) == [exists |-> TRUE, data |-> data]
EmptyTree == [f \in ConfigFiles |-> NoFile]

\* Template(text).render(**kwargs): a variable token is replaced by its value,
\* the syslog block is emitted only for a non-empty syslog_args and names
\* every element, any other token is literal text.
RECURSIVE Render(_, _)
Render(text, kwargs) ==
  IF text = <<>> THEN <<>>
  ELSE LET tok == Head(text)
           piece == CASE tok = "{{prefix}}" -> kwargs.prefix
                      [] tok = "{%syslog%}" ->
                           IF kwargs.syslog_args = <<>> THEN <<>>
                           ELSE <<"@">> \o kwargs.syslog_args
                      [] OTHER -> <<tok>>
       IN piece \o Render(Tail(text), kwargs)

\* The prefix substituted as passed.
NormalizePrefix_none(prefix) == prefix

\* if kwargs.get('prefix').endswith('/'): kwargs['prefix'] = kwargs['prefix'][:-1]
NormalizePrefix(prefix) ==
  IF Len(prefix) > 0 /\ prefix[Len(prefix)] = "/"
    THEN SubSeq(prefix, 1, Len(prefix) - 1)
    ELSE prefix

\* CommonInstall.create_paths: makedirs(BASE_ENV/etc/kytos) unless it exists.
CreatePaths(dirs) == IF "base" \in dirs THEN dirs ELSE dirs \cup {"base"}

\* create_pid_folder with the chmod outside the system-install test.
CreatePidFolder_always_chmod(folder, base_env) ==
  [exists |-> TRUE, mode |-> "0o1777"]

\* CommonInstall.create_pid_folder: makedirs(exist_ok=True), then chmod 0o1777
\* for a system install.
CreatePidFolder(folder, base_env) ==
  LET made == IF folder.exists THEN folder ELSE [exists |-> TRUE, mode |-> "default"]
  IN IF base_env = <<"/">> THEN [made EXCEPT !.mode = "0o1777"] ELSE made

\* generate_file_link without the exists() test.
PathExists_never(f) == FALSE

\* os.path.exists(dst) in generate_file_link: it follows a link to its target,
\* which is the file of the same name in the source tree.
PathExists(f) ==
  \/ dst[f].kind = "file"
  \/ dst[f].kind = "link" /\ tree["src"][f].exists

\* ------------------------------------------------------------ the commands
\* for command in TestCoverage, DocTest, Linter
CI_COMMANDS == <<"TestCoverage", "DocTest", "Linter">>

\* The first step of each command's run().
FirstStep(c) ==
  CASE c = "ci"         -> CI_COMMANDS[1]
    [] c = "egg_info"   -> "install_deps_wheels"
    [] c = "build_sass" -> "import_sass"
    [] c = "install"    -> "install_first"
    [] c = "develop"    -> "develop_run"
    [] c = "render"     -> "render_begin"

NoRender == [valid |-> FALSE, given |-> <<>>, subst |-> <<>>, out |-> EmptyTree]

Idle == pc \in {"idle", "done", "raised"}

\* setup(cmdclass=...): the framework instantiates the command and calls run().
\* bdist, d and p are the process's argv and, for a direct call of
\* generate_file_from_template, its destination and prefix arguments.
Dispatch(c, bdist, d, p) ==
  /\ Idle
  /\ runs < MaxRuns
  /\ cmd' = c
  /\ pc' = FirstStep(c)
  /\ exc' = "none"
  /\ ran' = <<>>
  /\ runs' = runs + 1
  /\ tool_failed' = {}
  /\ pip_calls' = 0
  /\ import_tries' = 0
  /\ compile_calls' = 0
  /\ css_at_start' = style_css
  /\ argv_bdist' = bdist
  /\ destination' = d
  /\ prefix_given' = p
  /\ kwargs_prefix' = p
  /\ idx' = 1
  /\ ensured' = {}
  /\ src_at_start' = tree["src"]
  /\ dst_at_start' = dst
  /\ pid_at_start' = pid_folder
  /\ prev' = [cmd |-> cmd, pc |-> pc]
  /\ prev_render' = IF cmd = "render" /\ pc = "done"
                      THEN [valid |-> TRUE, given |-> prefix_given,
                            subst |-> kwargs_prefix, out |-> tree[destination]]
                      ELSE NoRender
  /\ UNCHANGED <<sass_importable, style_css, style_map, egg_compiles, egg_compiled_ok>>
  /\ UNCHANGED <<envVars, fsVars, links_made>>

\* An exception leaves the step: the command ends with it.
Raise(step, e) ==
  /\ pc' = "raised"
  /\ exc' = e
  /\ ran' = Append(ran, step)

\* The step returns normally and control reaches `next`.
Goto(step, next) ==
  /\ pc' = next
  /\ exc' = "none"
  /\ ran' = Append(ran, step)

\* ------------------------------------------------------------------ ci
\* What run() of a CI sub-command does with the exit status of its tool.
\* TestCoverage.run and DocTest.run use check_call; Linter.run catches
\* CalledProcessError and calls exit(-1).
SubCommandExc(command) ==
  IF command = "Linter" THEN "SystemExit" ELSE "CalledProcessError"

Run_ci == Dispatch("ci", FALSE, "src", BASE_ENV)

\* CITest.run with the sub-commands run by call instead of check_call: a
\* failing tool is noted and the loop goes on.
CITest_run_ignoring_failure ==
  /\ cmd = "ci"
  /\ \E i \in 1..Len(CI_COMMANDS) :
       /\ pc = CI_COMMANDS[i]
       /\ \E ok \in BOOLEAN :
            /\ Goto(pc, IF i < Len(CI_COMMANDS) THEN CI_COMMANDS[i + 1] ELSE "done")
            /\ tool_failed' = IF ok THEN tool_failed ELSE tool_failed \cup {pc}
  /\ UNCHANGED <<cmd, runs, assetVars>>
  /\ UNCHANGED instVars

\* One iteration of the loop of CITest.run: command(...).run().
CITest_run ==
  /\ cmd = "ci"
  /\ \E i \in 1..Len(CI_COMMANDS) :
       /\ pc = CI_COMMANDS[i]
       /\ \E ok \in BOOLEAN :
            IF ok
              THEN /\ Goto(pc, IF i < Len(CI_COMMANDS) THEN CI_COMMANDS[i + 1] ELSE "done")
                   /\ UNCHANGED tool_failed
              ELSE /\ Raise(pc, SubCommandExc(pc))
                   /\ tool_failed' = tool_failed \cup {pc}
  /\ UNCHANGED <<cmd, runs, assetVars>>
  /\ UNCHANGED instVars

\* ------------------------------------------------------- SASSBuild / EggInfo
\* Where control goes when SASSBuild.build returns.
AfterBuild == IF cmd = "egg_info" THEN "egg_info_run" ELSE "done"

Run_build_sass == Dispatch("build_sass", FALSE, "src", BASE_ENV)

Run_egg_info == Dispatch("egg_info", FALSE, "src", BASE_ENV)

\* try: import sass / except ModuleNotFoundError: -> the pip install
Build_import ==
  /\ cmd \in {"egg_info", "build_sass"}
  /\ pc = "import_sass"
  /\ import_tries' = import_tries + 1
  /\ IF sass_importable
       THEN Goto(pc, "compile") /\ UNCHANGED tool_failed
       ELSE Goto(pc, "pip_build") /\ tool_failed' = tool_failed \cup {pc}
  /\ UNCHANGED <<cmd, runs, sass_importable, style_css, style_map,
                 pip_calls, compile_calls, egg_compiles, egg_compiled_ok, css_at_start>>
  /\ UNCHANGED instVars

\* check_call([sys.executable, '-m', 'pip', 'install', '-r', 'requirements/build.in'])
\* The install fails, or it succeeds and the library is then importable or not.
Build_pip ==
  /\ cmd \in {"egg_info", "build_sass"}
  /\ pc = "pip_build"
  /\ pip_calls' = pip_calls + 1
  /\ \E r \in {"failed", "installed", "not_installed"} :
       IF r = "failed"
         THEN /\ Raise(pc, "CalledProcessError")
              /\ tool_failed' = tool_failed \cup {pc}
              /\ UNCHANGED sass_importable
         ELSE /\ Goto(pc, "reimport_sass")
              /\ sass_importable' = (r = "installed")
              /\ UNCHANGED tool_failed
  /\ UNCHANGED <<cmd, runs, style_css, style_map, import_tries, compile_calls,
                 egg_compiles, egg_compiled_ok, css_at_start>>
  /\ UNCHANGED instVars

\* The import retried in a loop: a failed retry installs again.
Build_reimport_loop ==
  /\ cmd \in {"egg_info", "build_sass"}
  /\ pc = "reimport_sass"
  /\ import_tries' = import_tries + 1
  /\ Goto(pc, IF sass_importable THEN "compile" ELSE "pip_build")
  /\ UNCHANGED <<cmd, runs, tool_failed, sass_importable, style_css, style_map,
                 pip_calls, compile_calls, egg_compiles, egg_compiled_ok, css_at_start>>
  /\ UNCHANGED instVars

\* The second "import sass", in the except clause: nothing catches its failure.
Build_reimport ==
  /\ cmd \in {"egg_info", "build_sass"}
  /\ pc = "reimport_sass"
  /\ import_tries' = import_tries + 1
  /\ IF sass_importable
       THEN Goto(pc, "compile") /\ UNCHANGED tool_failed
       ELSE Raise(pc, "ModuleNotFoundError") /\ tool_failed' = tool_failed \cup {pc}
  /\ UNCHANGED <<cmd, runs, sass_importable, style_css, style_map, pip_calls,
                 compile_calls, egg_compiles, egg_compiled_ok, css_at_start>>
  /\ UNCHANGED instVars

\* compiled = sass.compile(filename=..., source_map_filename=...)
Build_compile ==
  /\ cmd \in {"egg_info", "build_sass"}
  /\ pc = "compile"
  /\ compile_calls' = compile_calls + 1
  /\ egg_compiles' = IF cmd = "egg_info" THEN egg_compiles + 1 ELSE egg_compiles
  /\ \E ok \in BOOLEAN :
       /\ egg_compiled_ok' = IF ok /\ cmd = "egg_info" THEN egg_compiled_ok + 1
                                                        ELSE egg_compiled_ok
       /\ IF ok
            THEN Goto(pc, "write_outputs") /\ UNCHANGED tool_failed
            ELSE Raise(pc, "CompileError") /\ tool_failed' = tool_failed \cup {pc}
  /\ UNCHANGED <<cmd, runs, sass_importable, style_css, style_map, pip_calls,
                 import_tries, css_at_start>>
  /\ UNCHANGED instVars

\* for content, filename in zip(compiled, (cls.style_css, style_map)): write
Build_write ==
  /\ cmd \in {"egg_info", "build_sass"}
  /\ pc = "write_outputs"
  /\ style_css' = "compiled"
  /\ style_map' = "compiled"
  /\ Goto(pc, AfterBuild)
  /\ UNCHANGED <<cmd, runs, tool_failed, sass_importable, pip_calls, import_tries,
                 compile_calls, egg_compiles, egg_compiled_ok, css_at_start>>
  /\ UNCHANGED instVars

\* _install_deps_wheels with call instead of check_call: a failed install is
\* noted and packaging goes on.
EggInfo_install_deps_wheels_call ==
  /\ cmd = "egg_info"
  /\ pc = "install_deps_wheels"
  /\ \E ok \in BOOLEAN :
       /\ Goto(pc, "check_sass")
       /\ tool_failed' = IF ok THEN tool_failed ELSE tool_failed \cup {pc}
  /\ UNCHANGED <<cmd, runs, assetVars>>
  /\ UNCHANGED instVars

\* EggInfo._install_deps_wheels: check_call(pip install -r requirements/run.in)
EggInfo_install_deps_wheels ==
  /\ cmd = "egg_info"
  /\ pc = "install_deps_wheels"
  /\ \E ok \in BOOLEAN :
       IF ok
         THEN Goto(pc, "check_sass") /\ UNCHANGED tool_failed
         ELSE Raise(pc, "CalledProcessError") /\ tool_failed' = tool_failed \cup {pc}
  /\ UNCHANGED <<cmd, runs, assetVars>>
  /\ UNCHANGED instVars

\* _check_sass without the exists() test: the stylesheet is always built.
EggInfo_check_sass_always_build ==
  /\ cmd = "egg_info"
  /\ pc = "check_sass"
  /\ Goto(pc, "import_sass")
  /\ UNCHANGED <<cmd, runs, tool_failed, assetVars>>
  /\ UNCHANGED instVars

\* EggInfo._check_sass: build only when style.css does not exist.
EggInfo_check_sass ==
  /\ cmd = "egg_info"
  /\ pc = "check_sass"
  /\ IF style_css # "absent"
       THEN Goto(pc, "egg_info_run")
       ELSE Goto(pc, "import_sass")
  /\ UNCHANGED <<cmd, runs, tool_failed, assetVars>>
  /\ UNCHANGED instVars

\* super().run() of EggInfo.run: setuptools' egg_info.
EggInfo_super_run ==
  /\ cmd = "egg_info"
  /\ pc = "egg_info_run"
  /\ \E ok \in BOOLEAN :
       IF ok
         THEN Goto(pc, "done") /\ UNCHANGED tool_failed
         ELSE Raise(pc, "DistutilsError") /\ tool_failed' = tool_failed \cup {pc}
  /\ UNCHANGED <<cmd, runs, assetVars>>
  /\ UNCHANGED instVars

\* ------------------------------------------------ generate_file_from_template
\* Where control goes when generate_file_from_template returns.
AfterRender ==
  CASE cmd = "install" -> "copy_etc"
    [] cmd = "develop" -> "link_etc"
    [] OTHER           -> "done"

\* A direct call generate_file_from_template(TEMPLATE_FILES, prefix=p).
Run_render_prefix(p) == Dispatch("render", FALSE, "src", p)

\* A direct call generate_file_from_template(TEMPLATE_FILES, destination=d,
\* prefix=BASE_ENV).
Run_render_to(d) == Dispatch("render", FALSE, d, BASE_ENV)

\* The prefix is normalised, then cls.create_paths().
Render_begin ==
  /\ cmd \in {"install", "develop", "render"}
  /\ pc = "render_begin"
  /\ kwargs_prefix' = NormalizePrefix(kwargs_prefix)
  /\ etc_dirs' = CreatePaths(etc_dirs)
  /\ ensured' = ensured \cup {"base"}
  /\ idx' = 1
  /\ Goto(pc, "render_write")
  /\ UNCHANGED <<cmd, runs, tool_failed, assetVars, envVars, tree, dst, pid_folder,
                 argv_bdist, destination, prefix_given, histVars>>

\* One iteration of "for path in templates": read, render, open dst_path, write.
Render_write ==
  /\ cmd \in {"install", "develop", "render"}
  /\ pc = "render_write"
  /\ LET path    == TEMPLATE_FILES[idx]
         content == Render(templates[path], [prefix |-> kwargs_prefix,
                                             syslog_args |-> SYSLOG_ARGS])
         name    == StripTemplate(path)
         last    == idx = Len(TEMPLATE_FILES)
     IN IF destination \notin etc_dirs
          THEN /\ Raise(pc, "FileNotFoundError")
               /\ tool_failed' = tool_failed \cup {pc}
               /\ UNCHANGED <<tree, idx>>
          ELSE /\ tree' = [tree EXCEPT ![destination][name] = File(content)]
               /\ idx' = IF last THEN 1 ELSE idx + 1
               /\ Goto(pc, IF last THEN AfterRender ELSE pc)
               /\ UNCHANGED tool_failed
  /\ UNCHANGED <<cmd, runs, assetVars, envVars, dst, etc_dirs, pid_folder,
                 argv_bdist, destination, prefix_given, kwargs_prefix, ensured,
                 histVars>>

\* ------------------------------------------------------------- InstallMode
Run_install == \E bdist \in BOOLEAN : Dispatch("install", bdist, "src", BASE_ENV)

\* The test on sys.argv inverted.
InstallFirstStep_inverted(bdist) == IF bdist THEN "do_egg_install" ELSE "install_run"

\* The step InstallMode.run starts with: super().run() for a bdist_wheel
\* build, self.do_egg_install() otherwise.
InstallFirstStep(bdist) == IF bdist THEN "install_run" ELSE "do_egg_install"

\* The if/else of InstallMode.run; either call may fail.
InstallMode_first ==
  /\ cmd = "install"
  /\ pc = "install_first"
  /\ \E ok \in BOOLEAN :
       IF ok
         THEN /\ Goto(InstallFirstStep(argv_bdist), "render_begin")
              /\ UNCHANGED tool_failed
         ELSE /\ Raise(InstallFirstStep(argv_bdist), "DistutilsError")
              /\ tool_failed' = tool_failed \cup {InstallFirstStep(argv_bdist)}
  /\ UNCHANGED <<cmd, runs, assetVars, instVars>>

\* The copy made only where nothing is at the destination, as the links are.
InstallMode_copy_if_absent ==
  /\ cmd = "install"
  /\ pc = "copy_etc"
  /\ LET f    == ETC_FILES[idx]
         src  == tree["src"][f]
         last == idx = Len(ETC_FILES)
     IN /\ dst' = IF dst[f].kind = "absent"
                    THEN [dst EXCEPT ![f] = [kind |-> "file", data |-> src.data]]
                    ELSE dst
        /\ idx' = IF last THEN 1 ELSE idx + 1
        /\ Goto(pc, IF last THEN "create_pid_folder" ELSE pc)
        /\ UNCHANGED tool_failed
  /\ UNCHANGED <<cmd, runs, assetVars, envVars, tree, etc_dirs, pid_folder,
                 argv_bdist, destination, prefix_given, kwargs_prefix, ensured,
                 histVars>>

\* One iteration of "for file in ETC_FILES": shutil.copy2(file, BASE_ENV/file).
\* copy2 raises when the source is missing, when the destination directory is
\* missing, and when source and destination are the same file.
InstallMode_copy ==
  /\ cmd = "install"
  /\ pc = "copy_etc"
  /\ LET f    == ETC_FILES[idx]
         src  == tree["src"][f]
         last == idx = Len(ETC_FILES)
         err  == IF ~src.exists \/ "base" \notin etc_dirs THEN "FileNotFoundError"
                 ELSE IF dst[f].kind = "link" THEN "SameFileError"
                 ELSE "none"
     IN IF err # "none"
          THEN /\ Raise(pc, err)
               /\ tool_failed' = tool_failed \cup {pc}
               /\ UNCHANGED <<dst, idx>>
          ELSE /\ dst' = [dst EXCEPT ![f] = [kind |-> "file", data |-> src.data]]
               /\ idx' = IF last THEN 1 ELSE idx + 1
               /\ Goto(pc, IF last THEN "create_pid_folder" ELSE pc)
               /\ UNCHANGED tool_failed
  /\ UNCHANGED <<cmd, runs, assetVars, envVars, tree, etc_dirs, pid_folder,
                 argv_bdist, destination, prefix_given, kwargs_prefix, ensured,
                 histVars>>

\* self.create_pid_folder(), the last statement of both install commands.
Create_pid_folder ==
  /\ cmd \in {"install", "develop"}
  /\ pc = "create_pid_folder"
  /\ pid_folder' = CreatePidFolder(pid_folder, BASE_ENV)
  /\ Goto(pc, "done")
  /\ UNCHANGED <<cmd, runs, tool_failed, assetVars, envVars, tree, dst, etc_dirs,
                 callVars, histVars>>

\* ------------------------------------------------------------- DevelopMode
Run_develop == Dispatch("develop", FALSE, "src", BASE_ENV)

\* super().run() of DevelopMode.run: setuptools' develop.
DevelopMode_super_run ==
  /\ cmd = "develop"
  /\ pc = "develop_run"
  /\ \E ok \in BOOLEAN :
       IF ok
         THEN Goto(pc, "render_begin") /\ UNCHANGED tool_failed
         ELSE Raise(pc, "DistutilsError") /\ tool_failed' = tool_failed \cup {pc}
  /\ UNCHANGED <<cmd, runs, assetVars, instVars>>

\* DevelopMode.generate_file_link(f), then control goes to `next`.
\* os.symlink raises when an entry is already at dst and when the
\* destination directory is missing.
GenerateFileLink(f, next, next_idx) ==
  IF PathExists(f)
    THEN /\ Goto(pc, next)
         /\ idx' = next_idx
         /\ UNCHANGED <<dst, links_made, tool_failed>>
    ELSE LET err == IF dst[f].kind # "absent" THEN "FileExistsError"
                    ELSE IF "base" \notin etc_dirs THEN "FileNotFoundError"
                    ELSE "none"
         IN IF err # "none"
              THEN /\ Raise(pc, err)
                   /\ tool_failed' = tool_failed \cup {pc}
                   /\ UNCHANGED <<dst, links_made, idx>>
              ELSE /\ dst' = [dst EXCEPT ![f] = [kind |-> "link", data |-> <<>>]]
                   /\ links_made' = [links_made EXCEPT ![f] = @ + 1]
                   /\ idx' = next_idx
                   /\ Goto(pc, next)
                   /\ UNCHANGED tool_failed

\* One iteration of "for file_name in ETC_FILES".
DevelopMode_link_etc ==
  /\ cmd = "develop"
  /\ pc = "link_etc"
  /\ LET last == idx = Len(ETC_FILES)
     IN GenerateFileLink(ETC_FILES[idx],
                         IF last THEN "link_templates" ELSE pc,
                         IF last THEN 1 ELSE idx + 1)
  /\ UNCHANGED <<cmd, runs, assetVars, envVars, tree, etc_dirs, pid_folder,
                 argv_bdist, destination, prefix_given, kwargs_prefix, ensured,
                 src_at_start, dst_at_start, pid_at_start, prev, prev_render>>

\* One iteration of "for file_name in TEMPLATE_FILES".
DevelopMode_link_templates ==
  /\ cmd = "develop"
  /\ pc = "link_templates"
  /\ LET last == idx = Len(TEMPLATE_FILES)
     IN GenerateFileLink(StripTemplate(TEMPLATE_FILES[idx]),
                         IF last THEN "create_pid_folder" ELSE pc,
                         IF last THEN 1 ELSE idx + 1)
  /\ UNCHANGED <<cmd, runs, assetVars, envVars, tree, etc_dirs, pid_folder,
                 argv_bdist, destination, prefix_given, kwargs_prefix, ensured,
                 src_at_start, dst_at_start, pid_at_start, prev, prev_render>>

\* -------------------------------------------------------------- behaviours
\* The call state before any command ran.
CallIdle ==
  /\ argv_bdist = FALSE
  /\ destination = "src"
  /\ prefix_given = BASE_ENV
  /\ kwargs_prefix = BASE_ENV
  /\ idx = 1
  /\ ensured = {}
  /\ src_at_start = tree["src"]
  /\ dst_at_start = dst
  /\ pid_at_start = pid_folder
  /\ links_made = [f \in ConfigFiles |-> 0]
  /\ prev = [cmd |-> "none", pc |-> "idle"]
  /\ prev_render = NoRender

\* The template texts the model draws from: the prefix followed by a path, and
\* the syslog block between literal text and the prefix.
TemplateTexts == { <<"{{prefix}}", "/", "v">>, <<"v", "{%syslog%}", "{{prefix}}">> }

\* A fresh system checkout: nothing rendered, nothing installed.
InstallIdle ==
  /\ BASE_ENV = <<"/">>
  /\ SYSLOG_ARGS = <<>>
  /\ templates = [t \in Range(TEMPLATE_FILES) |-> <<"{{prefix}}", "/", "v">>]
  /\ tree = [d \in {"src", "other"} |-> EmptyTree]
  /\ dst = [f \in ConfigFiles |-> [kind |-> "absent", data |-> <<>>]]
  /\ etc_dirs = {"src"}
  /\ pid_folder = [exists |-> FALSE, mode |-> "none"]
  /\ CallIdle

ProcIdle ==
  /\ cmd = "none"
  /\ pc = "idle"
  /\ exc = "none"
  /\ ran = <<>>
  /\ runs = 0
  /\ tool_failed = {}

\* The commands ci, egg_info and build_sass, from every state of the
\* stylesheet and of the sass library.
Init ==
  /\ ProcIdle
  /\ sass_importable \in BOOLEAN
  /\ style_css \in {"absent", "prebuilt"}
  /\ style_map = style_css
  /\ pip_calls = 0
  /\ import_tries = 0
  /\ compile_calls = 0
  /\ egg_compiles = 0
  /\ egg_compiled_ok = 0
  /\ css_at_start = style_css
  /\ InstallIdle

Next ==
  \/ Run_ci
  \/ CITest_run
  \/ Run_build_sass
  \/ Run_egg_info
  \/ Build_import
  \/ Build_pip
  \/ Build_reimport
  \/ Build_compile
  \/ Build_write
  \/ EggInfo_install_deps_wheels
  \/ EggInfo_check_sass
  \/ EggInfo_super_run

Spec == Init /\ [][Next]_vars

\* The stylesheet already built: the state the install commands do not touch.
AssetIdle ==
  /\ sass_importable = TRUE
  /\ style_css = "compiled"
  /\ style_map = "compiled"
  /\ pip_calls = 0
  /\ import_tries = 0
  /\ compile_calls = 0
  /\ egg_compiles = 0
  /\ egg_compiled_ok = 0
  /\ css_at_start = style_css

\* The values of VIRTUAL_ENV the model draws from: unset, and a virtual
\* environment written without and with a trailing separator.
BaseEnvs == { <<"/">>, <<"/", "v">>, <<"/", "v", "/">> }

\* A config file left by an earlier version of the sources.
OldFile == File(<<"o">>)

DstEntries == { [kind |-> "absent", data |-> <<>>],
                [kind |-> "file", data |-> <<"o">>],
                [kind |-> "link", data |-> <<>>] }

PidFolders == { [exists |-> FALSE, mode |-> "none"],
                [exists |-> TRUE, mode |-> "default"],
                [exists |-> TRUE, mode |-> "0o700"],
                [exists |-> TRUE, mode |-> "0o1777"] }

\* The commands install and develop and a render into a chosen destination,
\* from every state of the install target.
InitInstall ==
  /\ ProcIdle
  /\ AssetIdle
  /\ BASE_ENV \in BaseEnvs
  /\ SYSLOG_ARGS \in {<<>>, <<"L">>}
  /\ templates = [t \in Range(TEMPLATE_FILES) |->
                    IF t = TEMPLATE_FILES[1] THEN <<"{{prefix}}", "/", "v">>
                                             ELSE <<"v", "{%syslog%}", "{{prefix}}">>]
  /\ \E t \in {EmptyTree, [f \in ConfigFiles |-> OldFile]} :
       tree = [d \in {"src", "other"} |-> IF d = "src" THEN t ELSE EmptyTree]
  /\ etc_dirs \in {{"src"} \cup x : x \in SUBSET {"base", "other"}}
  /\ dst \in [ConfigFiles -> DstEntries]
  /\ (\E f \in ConfigFiles : dst[f].kind # "absent") => "base" \in etc_dirs
  /\ pid_folder \in PidFolders
  /\ CallIdle

NextInstall ==
  \/ Run_install
  \/ Run_develop
  \/ \E d \in {"src", "other"} : Run_render_to(d)
  \/ Render_begin
  \/ Render_write
  \/ InstallMode_first
  \/ InstallMode_copy
  \/ Create_pid_folder
  \/ DevelopMode_super_run
  \/ DevelopMode_link_etc
  \/ DevelopMode_link_templates

SpecInstall == InitInstall /\ [][NextInstall]_vars

\* Prefixes of at most MaxPrefixLen characters.
Prefixes == UNION {[1..n -> {"/", "v"}] : n \in 0..MaxPrefixLen}

\* Direct renders into the source tree with every prefix.
InitRender ==
  /\ ProcIdle
  /\ AssetIdle
  /\ BASE_ENV = <<"/">>
  /\ SYSLOG_ARGS \in {<<>>, <<"L">>}
  /\ templates \in [Range(TEMPLATE_FILES) -> TemplateTexts]
  /\ tree = [d \in {"src", "other"} |-> EmptyTree]
  /\ dst = [f \in ConfigFiles |-> [kind |-> "absent", data |-> <<>>]]
  /\ etc_dirs = {"src"}
  /\ pid_folder = [exists |-> FALSE, mode |-> "none"]
  /\ CallIdle

NextRender ==
  \/ \E p \in Prefixes : Run_render_prefix(p)
  \/ Render_begin
  \/ Render_write

SpecRender == InitRender /\ [][NextRender]_vars

\* ------------------------------------------------------------------ claims
IsPrefixOf(s, t) == Len(s) <= Len(t) /\ s = SubSeq(t, 1, Len(s))

\* C1: CITest.run runs TestCoverage, DocTest and Linter in that order; the
\* stages that ran are always a prefix of that list; when the tool of a stage
\* fails, that stage is the last one run and the command ends with the
\* exception; the command is done only after all three ran without failure.
C1_CIRunsPrefixInOrder ==
  cmd = "ci" =>
    LET order == <<"TestCoverage", "DocTest", "Linter">>
    IN /\ IsPrefixOf(ran, order)
       /\ \A k \in 1..3 :
            order[k] \in tool_failed =>
              /\ ran = SubSeq(order, 1, k)
              /\ pc = "raised"
              /\ exc \in {"CalledProcessError", "SystemExit"}
       /\ pc = "raised" => tool_failed = {ran[Len(ran)]}
       /\ pc = "done" => ran = order /\ tool_failed = {}
       /\ pc \notin {"done", "raised"} => pc = order[Len(ran) + 1]

\* DocTest failed after TestCoverage passed: Linter did not run.
C1_Witness ==
  /\ cmd = "ci"
  /\ pc = "raised"
  /\ exc = "CalledProcessError"
  /\ tool_failed = {"DocTest"}
  /\ ran = <<"TestCoverage", "DocTest">>

\* C6, as claimed: the packaging pre-hook does not invoke the compiler when
\* style.css exists and leaves it as it was, invokes it once when it is
\* absent, and over all pre-hook runs invokes it at most once.
C6_CompilerAtMostOnceOverRuns ==
  /\ egg_compiles <= 1
  /\ cmd = "egg_info" /\ css_at_start # "absent" =>
       compile_calls = 0 /\ style_css = css_at_start
  /\ cmd = "egg_info" /\ pc = "done" /\ css_at_start = "absent" => compile_calls = 1

\* C6, amended: the pre-hook does not invoke the compiler when style.css
\* exists and leaves it as it was; a pre-hook run invokes it at most once,
\* and exactly once when it completes having found style.css absent; over
\* all pre-hook runs at most one invocation returns (a failed one leaves
\* style.css absent and a later run invokes the compiler again).
C6_CompilerOnlyWhenAbsent ==
  /\ egg_compiled_ok <= 1
  /\ cmd = "egg_info" => compile_calls <= 1
  /\ cmd = "egg_info" /\ css_at_start # "absent" =>
       compile_calls = 0 /\ style_css = css_at_start
  /\ cmd = "egg_info" /\ pc = "done" /\ css_at_start = "absent" =>
       compile_calls = 1 /\ style_css = "compiled"

\* A pre-hook run built the stylesheet after an earlier run's compilation failed.
C6_Witness ==
  /\ cmd = "egg_info"
  /\ pc = "done"
  /\ css_at_start = "absent"
  /\ compile_calls = 1
  /\ egg_compiles = 2

\* C7: EggInfo.run installs the dependencies, then checks or builds the
\* stylesheet, then runs the metadata step, in that order, and a failure of a
\* step ends the command: after a failed dependency install nothing else
\* runs, after a failed build the metadata step does not run, and the
\* metadata step runs only with style.css present.
C7_EggInfoStepsFatalInOrder ==
  cmd = "egg_info" =>
    LET steps == {ran[i] : i \in 1..Len(ran)}
        build == {"import_sass", "pip_build", "reimport_sass", "compile",
                  "write_outputs"}
        fatal == {"pip_build", "reimport_sass", "compile"}
    IN /\ ran # <<>> => ran[1] = "install_deps_wheels"
       /\ Len(ran) >= 2 => ran[2] = "check_sass"
       /\ \A i \in 1..Len(ran) : ran[i] \in build => i > 2
       /\ "install_deps_wheels" \in tool_failed =>
            ran = <<"install_deps_wheels">> /\ pc = "raised"
       /\ tool_failed \cap fatal # {} => pc = "raised" /\ "egg_info_run" \notin steps
       /\ (pc = "egg_info_run" \/ "egg_info_run" \in steps) =>
            /\ {"install_deps_wheels", "check_sass"} \subseteq steps
            /\ tool_failed \cap ({"install_deps_wheels"} \cup fatal) = {}
            /\ style_css # "absent"
       /\ "egg_info_run" \in steps => ran[Len(ran)] = "egg_info_run"

\* The compilation failed in the pre-hook: the metadata step did not run.
C7_Witness ==
  /\ cmd = "egg_info"
  /\ pc = "raised"
  /\ exc = "CompileError"
  /\ ran = <<"install_deps_wheels", "check_sass", "import_sass", "compile">>

C2_DevelopLinksIdempotent ==
  /\ \A f \in ConfigFiles : links_made[f] <= 1
  /\ cmd = "develop" =>
       /\ exc \notin {"FileExistsError", "FileNotFoundError"}
       /\ tool_failed \cap {"link_etc", "link_templates"} = {}
       /\ \A f \in ConfigFiles :
            dst_at_start[f].kind # "absent" => dst[f] = dst_at_start[f]
       /\ prev = [cmd |-> "develop", pc |-> "done"] =>
            /\ dst = dst_at_start
            /\ \A f \in ConfigFiles : dst[f].kind # "absent"

\* A second Develop Install in a row completed: kytos.conf is the link the
\* first run made, logging.ini the real file that was there before both.
C2_Witness ==
  /\ cmd = "develop"
  /\ pc = "done"
  /\ prev = [cmd |-> "develop", pc |-> "done"]
  /\ links_made[<<"etc/kytos/", "kytos.conf">>] = 1
  /\ dst[<<"etc/kytos/", "kytos.conf">>].kind = "link"
  /\ dst[<<"etc/kytos/", "logging.ini">>] = [kind |-> "file", data |-> <<"o">>]

\* C3, as claimed: when System Install is done every file of ETC_FILES is at
\* the install target with the content its source had when the command began.
C3_CopyOfSourceAtInvocation ==
  cmd = "install" /\ pc = "done" =>
    \A f \in Range(ETC_FILES) :
       /\ dst[f].kind = "file"
       /\ src_at_start[f].exists
       /\ dst[f].data = src_at_start[f].data

\* C3, amended: when System Install is done every file of ETC_FILES is at the
\* install target with the content its source has after the templates were
\* rendered; for a file a template renders (logging.ini) that is the
\* rendering of the template with the normalised prefix, whatever the source
\* held when the command began.
C3_CopyOfSourceAfterRender ==
  cmd = "install" /\ pc = "done" =>
    \A f \in Range(ETC_FILES) :
       /\ dst[f].kind = "file"
       /\ tree["src"][f].exists
       /\ dst[f].data = tree["src"][f].data
       /\ \A t \in Range(TEMPLATE_FILES) :
            StripTemplate(t) = f =>
              dst[f].data = Render(templates[t],
                                   [prefix |-> NormalizePrefix(BASE_ENV),
                                    syslog_args |-> SYSLOG_ARGS])

\* System Install is done over an older logging.ini in the source tree and at
\* the target: the installed file is the rendering, not the older content.
C3_Witness ==
  /\ cmd = "install"
  /\ pc = "done"
  /\ src_at_start[<<"etc/kytos/", "logging.ini">>] = File(<<"o">>)
  /\ dst_at_start[<<"etc/kytos/", "logging.ini">>].kind = "file"
  /\ dst[<<"etc/kytos/", "logging.ini">>].data # <<"o">>

\* C4, as claimed: in a bdist_wheel build System Install runs the underlying
\* install and nothing else; otherwise it runs the forced dependency install,
\* then the render, the copies and the runtime directory.
C4_BdistDelegatesAndStops ==
  cmd = "install" =>
    IF argv_bdist
      THEN IsPrefixOf(ran, <<"install_run">>)
      ELSE IsPrefixOf(ran, <<"do_egg_install", "render_begin", "render_write",
                             "render_write", "copy_etc", "create_pid_folder">>)

\* C4, amended: in a bdist_wheel build System Install runs the underlying
\* install and no forced dependency install, otherwise the forced dependency
\* install and not the underlying install; in both cases, only after that
\* step completed, the templates are rendered, then the plain config files
\* copied, then the runtime directory ensured, and a failure of the first
\* step ends the command.
C4_InstallStepsInOrder ==
  cmd = "install" =>
    LET first == IF argv_bdist THEN "install_run" ELSE "do_egg_install"
        order == <<first, "render_begin", "render_write", "render_write",
                   "copy_etc", "create_pid_folder">>
    IN /\ IsPrefixOf(ran, order)
       /\ first \in tool_failed => ran = <<first>> /\ pc = "raised"
       /\ pc = "done" => ran = order
       /\ pc \notin {"done", "raised", "install_first"} => pc = order[Len(ran) + 1]

\* A bdist_wheel System Install went on to the runtime directory.
C4_Witness ==
  /\ cmd = "install"
  /\ argv_bdist
  /\ pc = "done"
  /\ ran[1] = "install_run"
  /\ ran[Len(ran)] = "create_pid_folder"

\* C5: create_pid_folder never raises; once it returned the directory exists,
\* with mode 0o1777 when BASE_ENV is '/', and otherwise with the mode it had
\* before the command, or the creation default when the call created it
\* -- in the first command and in every later one.
C5_PidFolderMode ==
  cmd \in {"install", "develop"} /\ (\E i \in 1..Len(ran) : ran[i] = "create_pid_folder") =>
    /\ pc = "done"
    /\ pid_folder.exists
    /\ BASE_ENV = <<"/">> => pid_folder.mode = "0o1777"
    /\ BASE_ENV # <<"/">> =>
         pid_folder.mode = IF pid_at_start.exists THEN pid_at_start.mode ELSE "default"

\* A repeated call in a virtual environment left the private mode the
\* directory already had.
C5_Witness ==
  /\ cmd \in {"install", "develop"}
  /\ pc = "done"
  /\ runs >= 2
  /\ prev.pc = "done"
  /\ prev.cmd \in {"install", "develop"}
  /\ BASE_ENV = <<"/", "v">>
  /\ pid_folder = [exists |-> TRUE, mode |-> "0o700"]

EndsWithSeparator(p) == Len(p) > 0 /\ p[Len(p)] = "/"

\* C8: two completed renders of the same templates, one with a prefix p that
\* does not end in '/' and one with p followed by '/', substitute the same
\* value, p, for the prefix and write the same files; the prefix '/' is
\* substituted as the empty string.
C8_TrailingSeparatorNormalized ==
  cmd = "render" /\ pc = "done" =>
    /\ prefix_given = <<"/">> => kwargs_prefix = <<>>
    /\ ~EndsWithSeparator(prefix_given) => kwargs_prefix = prefix_given
    /\ prev_render.valid =>
         LET a == prev_render.given
             b == prefix_given
         IN /\ ~EndsWithSeparator(a) /\ b = a \o <<"/">> =>
                 /\ kwargs_prefix = a
                 /\ prev_render.subst = a
                 /\ tree["src"] = prev_render.out
            /\ ~EndsWithSeparator(b) /\ a = b \o <<"/">> =>
                 /\ kwargs_prefix = b
                 /\ prev_render.subst = b
                 /\ tree["src"] = prev_render.out

\* A render with prefix "v/" completed after one with prefix "v", with a
\* template that uses the prefix.
C8_Witness ==
  /\ cmd = "render"
  /\ pc = "done"
  /\ prev_render.valid
  /\ prev_render.given = <<"v">>
  /\ prefix_given = <<"v", "/">>
  /\ tree["src"][<<"etc/kytos/", "kytos.conf">>] = File(<<"v", "/", "v">>)

\* C9, as claimed: when a rendered file is about to be opened for writing,
\* its directory, etc/kytos under `destination`, is one that the
\* create_paths call of this render has ensured, so it exists.
C9_DestinationDirEnsured ==
  cmd \in {"install", "develop", "render"} /\ pc = "render_write" =>
    destination \in ensured /\ destination \in etc_dirs

====
